---- MODULE Spec2Model ----
(***************************************************************************)
(* Liten 0.1.3 (src/liten.py): the duplicate-detection walk of             *)
(* LitenBaseClass.diskWalker.  The state is the LitenBaseClass object      *)
(* together with the locals of the running diskWalker call; one step of    *)
(* the model is one iteration of the loop over the files os.walk yields.   *)
(***************************************************************************)
EXTENDS Integers, Sequences, FiniteSets, TLC

\* The largest number of directory entries os.walk yields in one walk.
MaxFiles == 4

\* checksum = None (createChecksum after an IOError); md5 digests are >= 0.
None == -1

\* The divisor of the sizes printed in the report.
MB == 1048576

\* File contents, as the byte strings "X", "Y" and "XX": two different
\* contents of one size, and one of another size.
Contents == {<<88>>, <<89>>, <<88, 88>>}

\* byteSizeThreshold = self.sizeType(): the configured minimum size in bytes.
Thresholds == {1, 2}

\* What os.walk lists in `files`: regular files (readable or not), symbolic
\* links that point at a readable regular file, and dangling symbolic links.
Entries ==
    [kind : {"file"}, content : Contents, readable : BOOLEAN]
    \cup [kind : {"symlink"}, content : Contents, readable : {TRUE}]
    \cup {[kind |-> "dangling", content |-> <<>>, readable |-> FALSE]}

\* What may happen to the file under examination while its iteration runs.
\*   deleted_before_getsize : unlinked between line 242 and line 243
\*   deleted_before_open    : unlinked between line 243 and line 252
\*   deleted_after_checksum : unlinked after line 252, before makeCreateDate
\*   chmod_before_rehash    : made unreadable between line 252 and line 305
Races == {"none", "deleted_before_getsize", "deleted_before_open",
          "deleted_after_checksum", "chmod_before_rehash"}

\* A Python dict with no keys.
EmptyDict == [k \in {} |-> k]

\* A local variable that has not been assigned yet.
Unbound == <<>>

VARIABLES
    liten,   \* the LitenBaseClass object and the locals of its diskWalker call
    tree,    \* the directory entries the first walk has examined, in os.walk
             \* order, each with what happened to it during its iteration
    call,    \* "first" | "fresh" | "again" | "quiet": which call liten holds
    value    \* what the first diskWalker call returned (line 373), or Unbound

vars == <<liten, tree, call, value>>

----------------------------------------------------------------------------
\* md5 of a byte string.  The digest is modelled as the big-endian number the
\* bytes spell, which is collision-free on Contents as md5 is taken to be.
RECURSIVE md5(_)
md5(data) ==
    IF data = <<>> THEN 0
    ELSE md5(SubSeq(data, 1, Len(data) - 1)) * 256 + data[Len(data)]

\* os.path.isfile follows symbolic links.
isfile(e) == e.kind \in {"file", "symlink"}

\* os.path.getsize follows symbolic links too.
getsize(e) == Len(e.content)

\* open(path) succeeds: the file is there and readable.
CanOpen(e, gone, locked) == e.readable /\ ~gone /\ ~locked

\* createChecksum: the md5 of the whole content, or None after an IOError.
createChecksum(e, gone, locked) ==
    IF CanOpen(e, gone, locked) THEN md5(e.content) ELSE None

\* makeCreateDate(path): the formatted ctime of the file at path.
makeCreateDate(path) == <<"ctime", path>>

\* LitenBaseClass.__init__, before any diskWalker call.  `threshold` is the
\* number of bytes the object's fileSize stands for (what sizeType returns at
\* line 229); self.byte_size does not exist yet, which 0 stands for.
Construct(threshold) ==
    [byteSizeThreshold    |-> threshold,
     checksum_cache_key   |-> EmptyDict,
     checksum_cache_value |-> EmptyDict,
     confirmed_dup_key    |-> EmptyDict,
     byte_cache           |-> {},
     byte_size            |-> 0,
     dupNumber            |-> 0,
     byte_count           |-> 0,
     record_count         |-> 0,
     modDate              |-> Unbound,
     report               |-> <<>>,
     log                  |-> <<>>,
     pc                   |-> "constructed"]

\* diskWalker's entry: the report is opened for writing and the locals are set.
Enter(s) ==
    [s EXCEPT !.dupNumber = 0, !.byte_count = 0, !.record_count = 0,
              !.modDate = Unbound, !.report = <<>>, !.pc = "walking"]

\* DuplicateBranch with line 256 left out: the duplicate's bytes are not added.
DuplicateBranchUncounted(s, path, checksum, gone) ==
    LET orig == s.checksum_cache_key[checksum]
        counted == [s EXCEPT !.dupNumber = @ + 1]
        origLine == [version |-> "Original", path |-> orig.fullPath,
                     mb |-> s.byte_size \div MB, modDate |-> orig.modDate]
        dupLine == [version |-> "Duplicate", path |-> path,
                    mb |-> s.byte_size \div MB, modDate |-> makeCreateDate(path)]
        confirmed_dup_value ==
            [fullPath |-> path, modDate |-> s.modDate,
             dupNumber |-> counted.dupNumber, checksum |-> checksum,
             bytes |-> s.byte_size]
    IN  IF gone
        THEN [counted EXCEPT !.report = Append(@, origLine), !.pc = "OSError"]
        ELSE IF s.modDate = Unbound
        THEN [counted EXCEPT
                 !.report = @ \o <<origLine, dupLine>>,
                 !.confirmed_dup_key =
                     (orig.fullPath :> s.checksum_cache_value) @@ @,
                 !.pc = "UnboundLocalError"]
        ELSE [counted EXCEPT
                 !.report = @ \o <<origLine, dupLine>>,
                 !.confirmed_dup_key =
                     (path :> confirmed_dup_value)
                     @@ (orig.fullPath :> s.checksum_cache_value) @@ @]

\* DuplicateBranch that also stores the duplicate's record under the checksum,
\* as the reference branch does at line 320.
DuplicateBranchCaching(s, path, checksum, gone) ==
    LET orig == s.checksum_cache_key[checksum]
        counted == [s EXCEPT !.byte_count = @ + s.byte_size,
                             !.dupNumber = @ + 1]
        origLine == [version |-> "Original", path |-> orig.fullPath,
                     mb |-> s.byte_size \div MB, modDate |-> orig.modDate]
        dupLine == [version |-> "Duplicate", path |-> path,
                    mb |-> s.byte_size \div MB, modDate |-> makeCreateDate(path)]
        confirmed_dup_value ==
            [fullPath |-> path, modDate |-> s.modDate,
             dupNumber |-> counted.dupNumber, checksum |-> checksum,
             bytes |-> s.byte_size]
    IN  IF gone
        THEN [counted EXCEPT !.report = Append(@, origLine), !.pc = "OSError"]
        ELSE IF s.modDate = Unbound
        THEN [counted EXCEPT
                 !.report = @ \o <<origLine, dupLine>>,
                 !.confirmed_dup_key =
                     (orig.fullPath :> s.checksum_cache_value) @@ @,
                 !.pc = "UnboundLocalError"]
        ELSE [counted EXCEPT
                 !.report = @ \o <<origLine, dupLine>>,
                 !.checksum_cache_key = (checksum :> confirmed_dup_value) @@ @,
                 !.confirmed_dup_key =
                     (path :> confirmed_dup_value)
                     @@ (orig.fullPath :> s.checksum_cache_value) @@ @]

\* The branch of line 255: the checksum is a key of checksum_cache_key.
\* The report holds the "Original" and "Duplicate" lines; the constant heading
\* written before each pair (line 269) is left out.
DuplicateBranch(s, path, checksum, gone) ==
    LET orig == s.checksum_cache_key[checksum]
        counted == [s EXCEPT !.byte_count = @ + s.byte_size,
                             !.dupNumber = @ + 1]
        origLine == [version |-> "Original", path |-> orig.fullPath,
                     mb |-> s.byte_size \div MB, modDate |-> orig.modDate]
        dupLine == [version |-> "Duplicate", path |-> path,
                    mb |-> s.byte_size \div MB, modDate |-> makeCreateDate(path)]
        confirmed_dup_value ==
            [fullPath |-> path, modDate |-> s.modDate,
             dupNumber |-> counted.dupNumber, checksum |-> checksum,
             bytes |-> s.byte_size]
    IN  IF gone
        THEN \* makeCreateDate (line 274) raises OSError
             [counted EXCEPT !.report = Append(@, origLine), !.pc = "OSError"]
        ELSE IF s.modDate = Unbound
        THEN \* line 290 reads modDate before any assignment
             [counted EXCEPT
                 !.report = @ \o <<origLine, dupLine>>,
                 !.confirmed_dup_key =
                     (orig.fullPath :> s.checksum_cache_value) @@ @,
                 !.pc = "UnboundLocalError"]
        ELSE [counted EXCEPT
                 !.report = @ \o <<origLine, dupLine>>,
                 !.confirmed_dup_key =
                     (path :> confirmed_dup_value)
                     @@ (orig.fullPath :> s.checksum_cache_value) @@ @]

\* ReferenceBranch with line 320 left out: the record is built, never cached.
ReferenceBranchUnregistered(s, path, checksum, gone) ==
    IF gone THEN [s EXCEPT !.pc = "OSError"]
    ELSE [s EXCEPT
             !.modDate = makeCreateDate(path),
             !.checksum_cache_value =
                 [fullPath |-> path, modDate |-> makeCreateDate(path),
                  dupNumber |-> s.dupNumber, checksum |-> checksum,
                  bytes |-> s.byte_size]]

\* ReferenceBranch with the assignments of lines 307-310 left out: the record
\* is cached, the locals the duplicate branch reads are not assigned.
ReferenceBranchUnassigned(s, path, checksum, gone) ==
    LET record == [fullPath |-> path, modDate |-> makeCreateDate(path),
                   dupNumber |-> s.dupNumber, checksum |-> checksum,
                   bytes |-> s.byte_size]
    IN  IF gone
        THEN [s EXCEPT !.pc = "OSError"]
        ELSE [s EXCEPT
                 !.checksum_cache_value = record,
                 !.checksum_cache_key = (checksum :> record) @@ @]

\* The branch of line 303: the checksum is computed again and registered.
ReferenceBranch(s, path, checksum, gone) ==
    LET record == [fullPath |-> path, modDate |-> makeCreateDate(path),
                   dupNumber |-> s.dupNumber, checksum |-> checksum,
                   bytes |-> s.byte_size]
    IN  IF gone
        THEN \* makeCreateDate (line 306) raises OSError
             [s EXCEPT !.pc = "OSError"]
        ELSE [s EXCEPT
                 !.modDate = makeCreateDate(path),
                 !.checksum_cache_value = record,
                 !.checksum_cache_key = (checksum :> record) @@ @]

\* AboveThreshold with the comparison of line 245 left out.
AboveThresholdAlways(s, size) == TRUE

\* Line 245: the file is at or above the threshold.
AboveThreshold(s, size) == size >= s.byteSizeThreshold

\* SizeSeen with the size filter of line 246 left out: every file is hashed.
SizeSeenAlways(s, size) == TRUE

\* Line 246: self.byte_cache.has_key(self.byte_size).
SizeSeen(s, size) == size \in s.byte_cache

\* Line 255: self.checksum_cache_key.has_key(checksum).
HasChecksum(s, checksum) == checksum \in DOMAIN s.checksum_cache_key

\* One iteration of the loop of lines 240-324 for entry e at `path`.
LoopBody(s, e, path, race) ==
    IF ~isfile(e) THEN s
    ELSE IF race = "deleted_before_getsize"
    THEN [s EXCEPT !.pc = "OSError"]
    ELSE
    LET sized == [s EXCEPT !.byte_size = getsize(e), !.record_count = @ + 1]
        logged == [sized EXCEPT !.log = Append(@, path)]
        gone == race \in {"deleted_before_open", "deleted_after_checksum"}
        checksum == createChecksum(e, race = "deleted_before_open", FALSE)
        rehash == createChecksum(e, gone, race = "chmod_before_rehash")
    IN  IF ~AboveThreshold(s, sized.byte_size) THEN sized
        ELSE IF ~SizeSeen(s, sized.byte_size)
        THEN [sized EXCEPT !.byte_cache = @ \cup {sized.byte_size}]
        ELSE IF HasChecksum(s, checksum)
        THEN DuplicateBranch(logged, path, checksum, gone)
        ELSE ReferenceBranch(logged, path, rehash, gone)

\* Whether the race can be told apart from "none" for this entry: the file has
\* to pass isfile, and the later races need the file to reach the checksum.
RaceMatters(s, e, race) ==
    \/ race = "none"
    \/ race = "deleted_before_getsize" /\ isfile(e)
    \/ /\ race \in {"deleted_before_open", "deleted_after_checksum"}
       /\ isfile(e)
       /\ AboveThreshold(s, getsize(e))
       /\ SizeSeen(s, getsize(e))
    \/ /\ race = "chmod_before_rehash"
       /\ isfile(e)
       /\ e.readable
       /\ AboveThreshold(s, getsize(e))
       /\ SizeSeen(s, getsize(e))
       /\ ~HasChecksum(s, md5(e.content))

\* diskWalker's return value and what it reported.
Returned(s) ==
    [confirmed_dup_key |-> s.confirmed_dup_key,
     byte_count |-> s.byte_count,
     dupNumber |-> s.dupNumber,
     report |-> s.report]

\* The whole loop over a tree that does not change while it is walked.
RECURSIVE WalkFrom(_, _, _)
WalkFrom(s, t, i) ==
    IF i > Len(t) \/ s.pc # "walking" THEN s
    ELSE WalkFrom(LoopBody(s, t[i], i, "none"), t, i + 1)

\* A complete diskWalker call on object s over tree t.
diskWalker(s, t) ==
    LET end == WalkFrom(Enter(s), t, 1)
    IN  IF end.pc = "walking" THEN [end EXCEPT !.pc = "returned"] ELSE end

----------------------------------------------------------------------------
Init ==
    /\ \E threshold \in Thresholds : liten = Enter(Construct(threshold))
    /\ tree = <<>>
    /\ call = "first"
    /\ value = Unbound

\* An entry of the tree, with the race of its iteration.
Walked(e, race) ==
    [kind |-> e.kind, content |-> e.content, readable |-> e.readable,
     race |-> race]

\* os.walk yields one more entry and the loop body runs on it.
Examine ==
    /\ call = "first"
    /\ liten.pc = "walking"
    /\ Len(tree) < MaxFiles
    /\ \E e \in Entries :
          /\ liten' = LoopBody(liten, e, Len(tree) + 1, "none")
          /\ tree' = Append(tree, Walked(e, "none"))
    /\ UNCHANGED <<call, value>>

\* The same, with the file deleted or made unreadable during its iteration.
ExamineRaced ==
    /\ call = "first"
    /\ liten.pc = "walking"
    /\ Len(tree) < MaxFiles
    /\ \E e \in Entries, race \in Races \ {"none"} :
          /\ RaceMatters(liten, e, race)
          /\ liten' = LoopBody(liten, e, Len(tree) + 1, race)
          /\ tree' = Append(tree, Walked(e, race))
    /\ UNCHANGED <<call, value>>

\* os.walk is exhausted: the summary is printed and the registry returned.
Return ==
    /\ call = "first"
    /\ liten.pc = "walking"
    /\ liten' = [liten EXCEPT !.pc = "returned"]
    /\ value' = Returned(liten)
    /\ UNCHANGED <<tree, call>>

\* diskWalker is called once more on the same object, over the same tree.
ScanAgain ==
    /\ call = "first"
    /\ liten.pc = "returned"
    /\ liten' = diskWalker(liten, tree)
    /\ call' = "again"
    /\ UNCHANGED <<tree, value>>

\* ScanFresh with the scanner of the first scan used again, not a new one.
ScanFreshReusing ==
    /\ call = "first"
    /\ liten.pc = "returned"
    /\ liten' = diskWalker(liten, tree)
    /\ call' = "fresh"
    /\ UNCHANGED <<tree, value>>

\* A second scanner is constructed and walks the same, unmodified tree.
\* The debug log is the process's, not the scanner's.
ScanFresh ==
    /\ call = "first"
    /\ liten.pc = "returned"
    /\ liten' = diskWalker([Construct(liten.byteSizeThreshold) EXCEPT !.log = liten.log],
                           tree)
    /\ call' = "fresh"
    /\ UNCHANGED <<tree, value>>

\* LitenController.run with --quiet set: the scanner is constructed with the
\* default fileSize and run returns; diskWalker is not called, so no report
\* is written and no registry is produced.
RunQuiet ==
    /\ call = "first"
    /\ liten.pc = "returned"
    /\ liten' = [Construct(MB) EXCEPT !.log = liten.log]
    /\ call' = "quiet"
    /\ UNCHANGED <<tree, value>>

Next == Examine \/ ExamineRaced \/ Return

Spec == Init /\ [][Next]_vars

NextFresh == Examine \/ Return \/ ScanFresh

SpecFresh == Init /\ [][NextFresh]_vars

NextAgain == Examine \/ Return \/ ScanAgain

SpecAgain == Init /\ [][NextAgain]_vars

NextQuiet == Examine \/ Return \/ RunQuiet

SpecQuiet == Init /\ [][NextQuiet]_vars

----------------------------------------------------------------------------
\* What the claims speak about.

\* The paths of the entries diskWalker treats as files.
Files == {i \in 1..Len(tree) : isfile(tree[i])}

\* The files at or above the threshold.
BigFiles == {i \in Files : getsize(tree[i]) >= liten.byteSizeThreshold}

\* The n-th path of S in examination order.
Nth(S, n) == CHOOSE x \in S : Cardinality({y \in S : y < x}) = n - 1

\* The (original, duplicate) pairs a report holds: an "Original" line
\* followed by its "Duplicate" line.
Pairs(report) ==
    {<<report[i].path, report[i + 1].path>> : i \in
        {j \in 1..(Len(report) - 1) :
            /\ report[j].version = "Original"
            /\ report[j + 1].version = "Duplicate"}}

\* The paths a report names.
Reported(report) == {report[i].path : i \in 1..Len(report)}

\* The paths of the records held in the checksum cache.
CachedPaths ==
    {liten.checksum_cache_key[h].fullPath : h \in DOMAIN liten.checksum_cache_key}

\* The file stayed in place and readable for the whole of its iteration.
Openable(i) == tree[i].readable /\ tree[i].race = "none"

\* The files at or above the threshold are exactly n readable files of one
\* content (and so of one size).
IdenticalReadable(n) ==
    /\ Cardinality(BigFiles) = n
    /\ \A i, j \in BigFiles : tree[i].content = tree[j].content /\ Openable(i)

\* C1: a returned scan of a tree whose files at or above the threshold are
\* exactly three readable files of identical content reports exactly one
\* duplicate record, the second-examined file as original and the
\* third-examined as duplicate, and byte_count is one file's size.
C1_ThreeIdenticalOneRecord ==
    (liten.pc = "returned" /\ IdenticalReadable(3)) =>
        LET b == Nth(BigFiles, 2)
            c == Nth(BigFiles, 3)
        IN  /\ Len(liten.report) = 2
            /\ Pairs(liten.report) = {<<b, c>>}
            /\ DOMAIN liten.confirmed_dup_key = {b, c}
            /\ liten.dupNumber = 1
            /\ liten.byte_count = getsize(tree[c])
            /\ value.confirmed_dup_key = liten.confirmed_dup_key

C1_Witness ==
    /\ liten.pc = "returned"
    /\ IdenticalReadable(3)
    /\ liten.dupNumber = 1

\* C2: a returned scan of a tree whose files at or above the threshold are
\* exactly two files of identical content returns an empty registry and a
\* wasted-byte total of 0.
C2_TwoIdenticalNoRecord ==
    (/\ liten.pc = "returned"
     /\ Cardinality(BigFiles) = 2
     /\ \A i, j \in BigFiles : tree[i].content = tree[j].content) =>
        /\ value.confirmed_dup_key = EmptyDict
        /\ liten.confirmed_dup_key = EmptyDict
        /\ liten.report = <<>>
        /\ liten.byte_count = 0

C2_Witness ==
    /\ liten.pc = "returned"
    /\ Cardinality(BigFiles) = 2
    /\ \A i, j \in BigFiles : tree[i].content = tree[j].content /\ Openable(i)
    /\ Cardinality(DOMAIN liten.checksum_cache_key) = 1

\* C3: no duplicate record pairs an original and a duplicate whose contents
\* differ.
C3_PairsHaveEqualContent ==
    \A p \in Pairs(liten.report) : tree[p[1]].content = tree[p[2]].content

\* C4: a file that cannot be opened for hashing is in no duplicate record,
\* neither as original nor as duplicate, and is not a key of the registry.
C4_UnopenableExcluded ==
    \A i \in Files :
        ~Openable(i) =>
            /\ i \notin DOMAIN liten.confirmed_dup_key
            /\ i \notin Reported(liten.report)

\* C5: no file's failure aborts the walk: the scan is walking or has returned.
C5_WalkNeverAborts == liten.pc \in {"walking", "returned"}

\* C6: examining a file below the threshold leaves the size-seen set, the
\* checksum cache and the registry as they were, and while every file is
\* below the threshold the registry is empty.
C6_BelowThresholdFrame ==
    /\ [][(/\ Len(tree') = Len(tree) + 1
           /\ isfile(tree'[Len(tree')])
           /\ getsize(tree'[Len(tree')]) < liten.byteSizeThreshold) =>
              /\ liten'.byte_cache = liten.byte_cache
              /\ liten'.checksum_cache_key = liten.checksum_cache_key
              /\ liten'.confirmed_dup_key = liten.confirmed_dup_key
              /\ liten'.log = liten.log]_vars
    /\ [](BigFiles = {} =>
              /\ liten.confirmed_dup_key = EmptyDict
              /\ liten.checksum_cache_key = EmptyDict
              /\ liten.byte_cache = {})

C6_Witness ==
    /\ liten.pc = "returned"
    /\ BigFiles = {}
    /\ \E i, j \in Files : i # j /\ tree[i].content = tree[j].content
                           /\ Openable(i) /\ Openable(j)
    /\ Cardinality(Files) >= 3

\* C7: a symbolic link adds no size to the size-seen set, is never hashed and
\* is in neither the checksum cache nor the registry.
C7_SymlinksContributeNothing ==
    /\ \A i \in 1..Len(tree) :
          tree[i].kind = "symlink" =>
              /\ i \notin DOMAIN liten.confirmed_dup_key
              /\ i \notin CachedPaths
              /\ i \notin {liten.log[k] : k \in 1..Len(liten.log)}
    /\ liten.byte_cache \subseteq
          {getsize(tree[i]) : i \in {j \in 1..Len(tree) : tree[j].kind = "file"}}

\* C8: while the examined files have pairwise distinct sizes no checksum is
\* computed and no duplicate record is produced.
C8_DistinctSizesNoChecksum ==
    (\A i, j \in Files : i # j => getsize(tree[i]) # getsize(tree[j])) =>
        /\ liten.log = <<>>
        /\ liten.checksum_cache_key = EmptyDict
        /\ liten.confirmed_dup_key = EmptyDict
        /\ liten.report = <<>>
        /\ liten.dupNumber = 0

C8_Witness ==
    /\ liten.pc = "returned"
    /\ Cardinality(BigFiles) = 2
    /\ \A i, j \in Files : i # j => getsize(tree[i]) # getsize(tree[j])
    /\ liten.byte_cache = {1, 2}

\* C9: a record registered under a checksum is never replaced.
C9_CacheNeverOverwrites ==
    [][\A h \in DOMAIN liten.checksum_cache_key :
          /\ h \in DOMAIN liten'.checksum_cache_key
          /\ liten'.checksum_cache_key[h] = liten.checksum_cache_key[h]]_vars

FirstOfSize(i) ==
    \A k \in Files : k < i => getsize(tree[k]) # getsize(tree[i])

\* The paths the walk has logged a checksum for, in order.
Hashed == {liten.log[k] : k \in 1..Len(liten.log)}

\* C11: a second diskWalker call on the same object over the same unmodified
\* tree returns what the first call returned.
C11_SecondCallAgrees ==
    (call = "again" /\ \A i \in Files : tree[i].readable) =>
        liten.pc = "returned" /\ Returned(liten) = value

\* C12: the iteration of a file at or above the threshold whose size is not
\* yet in byte_cache adds that size to byte_cache and changes neither the
\* checksum cache, the registry, the report, the counters nor the checksum
\* log; byte_cache never loses a size; and the iteration of a file whose size
\* is in byte_cache logs a checksum for it.
C12_FirstOfSizeOnlyMarks ==
    [][LET n == Len(tree')
           size == getsize(tree'[n])
       IN  (/\ n = Len(tree) + 1
            /\ isfile(tree'[n])
            /\ tree'[n].race # "deleted_before_getsize"
            /\ size >= liten.byteSizeThreshold) =>
              /\ liten.byte_cache \subseteq liten'.byte_cache
              /\ size \notin liten.byte_cache =>
                    /\ liten'.byte_cache = liten.byte_cache \cup {size}
                    /\ liten'.checksum_cache_key = liten.checksum_cache_key
                    /\ liten'.checksum_cache_value = liten.checksum_cache_value
                    /\ liten'.confirmed_dup_key = liten.confirmed_dup_key
                    /\ liten'.report = liten.report
                    /\ liten'.byte_count = liten.byte_count
                    /\ liten'.dupNumber = liten.dupNumber
                    /\ liten'.log = liten.log
              /\ size \in liten.byte_cache =>
                    liten'.log = Append(liten.log, n)]_vars

C12_Witness ==
    /\ liten.pc = "walking"
    /\ Len(tree) = 4
    /\ FirstOfSize(4)
    /\ 4 \in BigFiles
    /\ liten.dupNumber = 1
    /\ liten.byte_cache = {1, 2}

\* The paths reported as duplicates, and those reported as originals.
Duplicates == {p[2] : p \in Pairs(liten.report)}

Originals ==
    {liten.report[i].path :
        i \in {j \in 1..Len(liten.report) : liten.report[j].version = "Original"}}

\* The examined files of the content of file i, up to and including i.
GroupUpTo(i) == {k \in Files : k <= i /\ tree[k].content = tree[i].content}

\* C13 as stated: in a tree of readable files, a file reported as a duplicate
\* is at least the third examined member of its same-content group.
C13_OnlyFromThirdMember ==
    (\A i \in Files : Openable(i)) =>
        \A d \in Duplicates : Cardinality(GroupUpTo(d)) >= 3

\* C13 as amended: a file is reported as a duplicate only of an earlier file,
\* neither of the two is the first file of its byte size, and a readable
\* duplicate has the content of its original and at least two earlier files
\* of its size.
C13_OnlyFromSecondHashedMember ==
    \A p \in Pairs(liten.report) :
        /\ p[1] < p[2]
        /\ ~FirstOfSize(p[1])
        /\ ~FirstOfSize(p[2])
        /\ p[1] \in Hashed /\ p[2] \in Hashed
        /\ Openable(p[2]) =>
              /\ tree[p[1]].content = tree[p[2]].content
              /\ Cardinality({k \in Files : k < p[2] /\
                    getsize(tree[k]) = getsize(tree[p[2]])}) >= 2

\* A same-content group of exactly two readable files that is detected.
C13_Witness ==
    /\ liten.pc = "returned"
    /\ \A i \in Files : Openable(i)
    /\ \E d \in Duplicates :
          /\ Cardinality(GroupUpTo(d)) = 2
          /\ Cardinality({k \in Files : tree[k].content = tree[d].content}) = 2

\* The "Duplicate" lines of the report.
DuplicateLines ==
    {j \in 1..Len(liten.report) : liten.report[j].version = "Duplicate"}

\* The sum of the sizes of the files of the "Duplicate" lines of a report.
RECURSIVE DuplicateBytes(_)
DuplicateBytes(report) ==
    IF report = <<>> THEN 0
    ELSE LET last == report[Len(report)]
             rest == DuplicateBytes(SubSeq(report, 1, Len(report) - 1))
         IN  IF last.version = "Duplicate"
             THEN rest + getsize(tree[last.path])
             ELSE rest

\* C14: between iterations byte_count is the sum of the sizes of the files
\* reported as duplicates and dupNumber is the number of duplicate records,
\* and neither ever decreases.
C14_CountersMatchRecords ==
    /\ [](liten.pc \in {"walking", "returned"} =>
            /\ liten.byte_count = DuplicateBytes(liten.report)
            /\ liten.dupNumber = Cardinality(DuplicateLines)
            /\ liten.dupNumber = Cardinality(Duplicates)
            /\ Duplicates \subseteq DOMAIN liten.confirmed_dup_key)
    /\ [][/\ liten'.byte_count >= liten.byte_count
          /\ liten'.dupNumber >= liten.dupNumber]_vars

C14_Witness ==
    /\ liten.pc = "walking"
    /\ liten.dupNumber = 2
    /\ liten.byte_count = 2

\* C15: the invocation with --quiet produces the report and the registry of
\* the same invocation without it.
C15_QuietSameResult ==
    (call = "quiet" /\ \A i \in Files : tree[i].readable) =>
        /\ liten.report = value.report
        /\ liten.confirmed_dup_key = value.confirmed_dup_key

\* C16: in a tree of readable files, every record of the registry describes
\* the file under whose path it is stored.
C16_RecordsDescribeTheirKey ==
    (\A i \in Files : Openable(i)) =>
        \A p \in DOMAIN liten.confirmed_dup_key :
            LET record == liten.confirmed_dup_key[p]
            IN  /\ record.fullPath = p
                /\ record.bytes = getsize(tree[p])
                /\ record.checksum = md5(tree[p].content)
                /\ record.modDate = makeCreateDate(p)

\* C17: in a scan on a freshly constructed object the duplicate branch never
\* reads an unassigned local: the scan never stops with UnboundLocalError, and
\* modDate is assigned whenever the checksum cache has a key.
C17_LocalsBoundInDuplicateBranch ==
    /\ liten.pc # "UnboundLocalError"
    /\ liten.checksum_cache_key # EmptyDict => liten.modDate # Unbound
    /\ \A p \in Duplicates :
          liten.confirmed_dup_key[p].modDate # Unbound

C17_Witness ==
    /\ liten.pc = "returned"
    /\ liten.dupNumber = 1
    /\ \E p \in Duplicates :
          liten.confirmed_dup_key[p].modDate = makeCreateDate(p - 1)

\* C18: the files reported as originals and the files reported as duplicates
\* are disjoint, no duplicate is held in the checksum cache, and every
\* original was cached before its duplicate was examined.
C18_OriginalsDisjointFromDuplicates ==
    /\ Originals \cap Duplicates = {}
    /\ Duplicates \cap CachedPaths = {}
    /\ \A p \in Pairs(liten.report) : p[1] \notin Duplicates /\ p[1] < p[2]

C18_Witness ==
    /\ liten.pc = "walking"
    /\ \A i \in Files : Openable(i)
    /\ Cardinality(Duplicates) = 2
    /\ Cardinality(Originals) = 1
    /\ Cardinality(CachedPaths) = 1

\* The files at or above the threshold that are not the first of their size.
HashedFiles == {i \in BigFiles : ~FirstOfSize(i)}

\* The checksum line 252 computes for the file at path i.
Checksum(i) ==
    createChecksum(tree[i], tree[i].race = "deleted_before_open", FALSE)

\* C19: between iterations the number of duplicate records is the number of
\* hashed files minus the number of distinct checksums among them, the hashed
\* files being the files at or above the threshold that are not the first of
\* their byte size.
C19_DuplicatesCountRepeatedChecksums ==
    liten.pc \in {"walking", "returned"} =>
        /\ Hashed = HashedFiles
        /\ liten.dupNumber =
              Cardinality(HashedFiles)
                  - Cardinality({Checksum(i) : i \in HashedFiles})

====
